---- MODULE Spec2Model ----
(***************************************************************************)
(* Model of src/client/xmlClient.ts: the bootstrap of the XML language     *)
(* client.  The state is the module-level languageClient, the clients      *)
(* constructed so far, the handlers and listeners registered on them and   *)
(* on the host, and the host state the handlers read and write (active     *)
(* editor, configuration, context keys, prompts).  Each handler of the     *)
(* file is one action; the host runs them one at a time.                   *)
(***************************************************************************)
EXTENDS Integers, Sequences, FiniteSets, TLC

\* ---------------------------------------------------------------- bounds
MaxCalls == 2       \* calls of startLanguageClient
MaxItems == 2       \* items of one workspace/configuration request
MaxCommands == 2    \* commands of one actionable notification
MaxPending == 1     \* prompts displayed and not yet resolved
MaxEvents == 3      \* host events delivered to the listeners

\* ------------------------------------------- library enumerations in use
\* vscode-languageclient State
Stopped == 1
Running == 2
Starting == 3
\* vscode-languageclient MessageType
Error == 1
Warning == 2
Info == 3
Log == 4

\* optional values (x?: T, T | undefined) are sequences of length 0 or 1
None == <<>>
Some(x) == <<x>>

VARIABLES
  languageClient,     \* module variable: id of the client last constructed, 0 before
  nClients,           \* LanguageClient objects constructed
  pc,                 \* pc[c]: position of the call that constructed client c
  clientState,        \* clientState[c]: the library's State of client c
  regLog,             \* registrations and start() calls, in program order
  returned,           \* returned[c]: client the call of c resolved its promise with
  XMLLSReady,         \* host context key, None until first set
  hasTrustEvent,      \* host exposes workspace.onDidGrantWorkspaceTrust
  hasExtensionsEvent, \* host exposes extensions.onDidChange
  activeTextEditor,   \* window.activeTextEditor
  fileAssociations,   \* setting xml.fileAssociations
  downloadExternalResources, \* setting xml.downloadExternalResources.enabled
  configChangePending,\* host has a configuration change to report
  delivered,          \* host events delivered to listeners of this file
  lastEvent,          \* listener that ran last
  effects,            \* calls made by the listener that ran last, in order
  cfgPc, cfgClient, cfgItems, cfgIdx, cfgResult, cfgEditor, \* configuration pull
  pending,            \* prompts displayed, not yet resolved
  handled             \* the actionable-notification callback that is running:
                      \* what it has shown, executed and thrown

startVars == <<languageClient, nClients, pc, clientState, regLog, returned, XMLLSReady>>
hostVars == <<hasTrustEvent, hasExtensionsEvent>>
envVars == <<activeTextEditor, fileAssociations, downloadExternalResources, configChangePending>>
eventVars == <<delivered, lastEvent, effects>>
cfgVars == <<cfgPc, cfgClient, cfgItems, cfgIdx, cfgResult, cfgEditor>>
notifVars == <<pending, handled>>
vars == <<startVars, hostVars, envVars, eventVars, cfgVars, notifVars>>

Clients == 1..MaxCalls

\* ------------------------------------------------------------ host data
\* Uri.parse(s).toString(): the canonical, percent-encoded form
UriToString(s) ==
  CASE s = "file:///c:/a.xml" -> "file:///c%3A/a.xml"
    [] s = "file:///c%3A/a.xml" -> "file:///c%3A/a.xml"
    [] OTHER -> s

ScopeUris == {"file:///c:/a.xml", "file:///c%3A/a.xml", "file:///b.xml"}
Sections == {"xml.format.insertSpaces", "xml.format.tabSize", "xml.catalogs"}

\* editors the host can make active: document uri (as uri.toString() prints
\* it) and the editor's local options
Editors ==
  { [uri |-> "file:///c%3A/a.xml", insertSpaces |-> "false", tabSize |-> "2"],
    [uri |-> "file:///c%3A/a.xml", insertSpaces |-> "true", tabSize |-> "4"],
    [uri |-> "file:///b.xml", insertSpaces |-> "false", tabSize |-> "4"] }

\* workspace.getConfiguration(null, uri).get(section); "undefined" when unset
GetConfiguration(uri, section) ==
  CASE section = "xml.format.insertSpaces" -> "true"
    [] section = "xml.format.tabSize" ->
         IF uri = "file:///b.xml" THEN "8" ELSE "3"
    [] OTHER -> "undefined"

\* values of xml.fileAssociations: each association names the variables its
\* pattern and systemId reference
FileAssociationSettings ==
  { <<>>,
    << [pattern |-> "**/*.xsd", variables |-> {}] >>,
    << [pattern |-> "**/*.xsd", variables |-> {}],
       [pattern |-> "${fileBasenameNoExtension}.xml", variables |-> {"fileBasenameNoExtension"}] >> }

CurrentFileVariables == {"fileDirname", "fileBasenameNoExtension"}

containsVariableReferenceToCurrentFile(associations) ==
  \E i \in DOMAIN associations :
    associations[i].variables \cap CurrentFileVariables # {}

\* getXMLSettings(...): computed from the host state at the time of the call
getXMLSettings(editor, associations, download) ==
  [ fileAssociations |-> associations,
    currentFile |-> IF editor = None THEN "" ELSE editor[1].uri,
    downloadExternalResources |-> download ]

\* ------------------------------------------------------- startLanguageClient
\* lines 41-57: what the call does on the new client before it suspends
PreStartRegistrationsMutant(c) ==
  << <<"onDidChangeState", c>>, <<"xml/actionableNotification", c>>,
     <<"onTelemetry", c>>, <<"start", c>> >>
PreStartRegistrations(c) ==
  << <<"onDidChangeState", c>>, <<"onTelemetry", c>>, <<"start", c>> >>

\* lines 62-121: what the call does once start() has resolved.  Handlers are
\* registered on the module variable languageClient (lc).
PostStartRegistrations(c, lc, extEvent, trustEvent) ==
  << <<"start.resolved", c>>,
     <<"subscribeJDKChangeConfiguration", lc>>,
     <<"xml/actionableNotification", lc>>,
     <<"xml/executeClientCommand", lc>>,
     <<"registerClientServerCommands", lc>>,
     <<"activateTagClosing", lc>> >>
  \o (IF extEvent THEN << <<"extensions.onDidChange", lc>> >> ELSE <<>>)
  \o << <<"workspace/configuration", lc>>,
        <<"onDidChangeActiveTextEditor", lc>> >>
  \o (IF trustEvent THEN << <<"onDidGrantWorkspaceTrust", lc>> >> ELSE <<>>)

Registered(name, c) == \E i \in DOMAIN regLog : regLog[i] = <<name, c>>
RegisteredOnHost(name) == \E i \in DOMAIN regLog : regLog[i][1] = name

\* no handler is in the middle of its run
Quiescent == cfgPc = "idle" /\ handled.kind = "none"

\* lines 36-57: construct the client, register the two listeners, call start()
StartLanguageClient ==
  /\ Quiescent
  /\ nClients < MaxCalls
  /\ LET c == nClients + 1 IN
       /\ nClients' = c
       /\ languageClient' = c
       /\ regLog' = regLog \o PreStartRegistrations(c)
       /\ pc' = [pc EXCEPT ![c] = "awaitStart"]
  /\ UNCHANGED <<clientState, returned, XMLLSReady>>
  /\ UNCHANGED <<hostVars, envVars, eventVars, cfgVars, notifVars>>

\* the host activates the extension: the first call
Activate ==
  /\ nClients = 0
  /\ StartLanguageClient

\* a further call while an earlier client exists
StartAgain ==
  /\ nClients > 0
  /\ StartLanguageClient

\* line 43: the value the listener gives the context key
OnDidChangeStateMutant(oldState, newState) == newState # Stopped
OnDidChangeState(oldState, newState) == newState = Running

\* the library reports a state change of client c to its listener (41-44)
DidChangeState(c, newState) ==
  /\ Quiescent
  /\ pc[c] # "notCalled"
  /\ Registered("onDidChangeState", c)
  /\ newState # clientState[c]
  /\ clientState' = [clientState EXCEPT ![c] = newState]
  /\ XMLLSReady' = Some(OnDidChangeState(clientState[c], newState))
  /\ UNCHANGED <<languageClient, nClients, pc, regLog, returned>>
  /\ UNCHANGED <<hostVars, envVars, eventVars, cfgVars, notifVars>>

\* line 57 resolves, lines 62-123 run
StartResolves(c) ==
  /\ Quiescent
  /\ pc[c] = "awaitStart"
  /\ clientState[c] = Running
  /\ regLog' = regLog \o PostStartRegistrations(c, languageClient, hasExtensionsEvent, hasTrustEvent)
  /\ pc' = [pc EXCEPT ![c] = "returned"]
  /\ returned' = [returned EXCEPT ![c] = languageClient]
  /\ UNCHANGED <<languageClient, nClients, clientState, XMLLSReady>>
  /\ UNCHANGED <<hostVars, envVars, eventVars, cfgVars, notifVars>>

\* line 57 rejects: the async function rejects, nothing after it runs
StartRejects(c) ==
  /\ Quiescent
  /\ pc[c] = "awaitStart"
  /\ clientState[c] # Running
  /\ pc' = [pc EXCEPT ![c] = "rejected"]
  /\ UNCHANGED <<languageClient, nClients, clientState, regLog, returned, XMLLSReady>>
  /\ UNCHANGED <<hostVars, envVars, eventVars, cfgVars, notifVars>>

\* ------------------------------------------------- host events (106-121)
Push(settings) ==
  [op |-> "sendNotification workspace/didChangeConfiguration", settings |-> Some(settings)]
Callback == [op |-> "onConfigurationChange", settings |-> None]
UpdateDownload ==
  [op |-> "update xml.downloadExternalResources.enabled true", settings |-> None]

\* lines 108-113: the calls the active-editor listener makes
OnDidChangeActiveTextEditorMutant(editor, associations, download) ==
  << Push(getXMLSettings(editor, associations, download)), Callback >>
OnDidChangeActiveTextEditor(editor, associations, download) ==
  IF containsVariableReferenceToCurrentFile(associations)
  THEN << Push(getXMLSettings(editor, associations, download)), Callback >>
  ELSE <<>>

\* the host makes editor e (or none) the active one and fires the event
ChangeActiveTextEditor(e) ==
  /\ Quiescent
  /\ e # activeTextEditor
  /\ activeTextEditor' = e
  /\ IF RegisteredOnHost("onDidChangeActiveTextEditor")
     THEN /\ delivered < MaxEvents
          /\ delivered' = delivered + 1
          /\ lastEvent' = "onDidChangeActiveTextEditor"
          /\ effects' = OnDidChangeActiveTextEditor(e, fileAssociations, downloadExternalResources)
     ELSE UNCHANGED eventVars
  /\ UNCHANGED <<fileAssociations, downloadExternalResources, configChangePending>>
  /\ UNCHANGED <<startVars, hostVars, cfgVars, notifVars>>

\* lines 117-120: the calls the trust listener makes
OnDidGrantWorkspaceTrustMutant(editor, associations, download) ==
  << Push(getXMLSettings(editor, associations, download)) >>
  \o (IF download THEN <<>> ELSE << UpdateDownload >>)
  \o << Callback >>
OnDidGrantWorkspaceTrust(editor, associations, download) ==
  << Push(getXMLSettings(editor, associations, download)), UpdateDownload >>

\* the user grants trust to the workspace; the host fires the event
GrantWorkspaceTrust ==
  /\ Quiescent
  /\ hasTrustEvent
  /\ RegisteredOnHost("onDidGrantWorkspaceTrust")
  /\ delivered < MaxEvents
  /\ delivered' = delivered + 1
  /\ lastEvent' = "onDidGrantWorkspaceTrust"
  /\ effects' = OnDidGrantWorkspaceTrust(activeTextEditor, fileAssociations, downloadExternalResources)
  /\ downloadExternalResources' =
       IF \E i \in DOMAIN effects' : effects'[i] = UpdateDownload
       THEN TRUE ELSE downloadExternalResources
  /\ configChangePending' = (configChangePending \/ downloadExternalResources' # downloadExternalResources)
  /\ UNCHANGED <<activeTextEditor, fileAssociations>>
  /\ UNCHANGED <<startVars, hostVars, cfgVars, notifVars>>

\* the user edits the settings
UserChangesSettings(associations, download) ==
  /\ Quiescent
  /\ <<associations, download>> # <<fileAssociations, downloadExternalResources>>
  /\ fileAssociations' = associations
  /\ downloadExternalResources' = download
  /\ configChangePending' = TRUE
  /\ UNCHANGED activeTextEditor
  /\ UNCHANGED <<startVars, hostVars, eventVars, cfgVars, notifVars>>

\* lines 160-164: the didChangeConfiguration middleware
DidChangeConfigurationMiddleware(editor, associations, download) ==
  << Push(getXMLSettings(editor, associations, download)), Callback >>

\* the host reports the configuration change; a running client's
\* configuration synchronisation calls the middleware
DidChangeConfiguration ==
  /\ Quiescent
  /\ configChangePending
  /\ configChangePending' = FALSE
  /\ IF \E c \in 1..nClients : clientState[c] = Running
     THEN /\ delivered < MaxEvents
          /\ delivered' = delivered + 1
          /\ lastEvent' = "didChangeConfiguration"
          /\ effects' = DidChangeConfigurationMiddleware(activeTextEditor, fileAssociations, downloadExternalResources)
     ELSE UNCHANGED eventVars
  /\ UNCHANGED <<activeTextEditor, fileAssociations, downloadExternalResources>>
  /\ UNCHANGED <<startVars, hostVars, cfgVars, notifVars>>

\* --------------------------------------- workspace/configuration (89-104)
RECURSIVE SeqsUpTo(_, _)
SeqsUpTo(S, n) ==
  IF n = 0 THEN {<<>>}
  ELSE LET shorter == SeqsUpTo(S, n - 1)
       IN shorter \cup {Append(q, x) : q \in {r \in shorter : Len(r) = n - 1}, x \in S}

ConfigurationItems == [scopeUri : ScopeUris, section : Sections]

\* lines 93-101: what one iteration of the loop pushes onto result
LoopBodyMutant(item, editor) ==
  IF editor # None /\ editor[1].uri = item.scopeUri
  THEN IF item.section = "xml.format.insertSpaces" THEN << editor[1].insertSpaces >>
       ELSE IF item.section = "xml.format.tabSize" THEN << editor[1].tabSize >>
       ELSE <<>>
  ELSE << GetConfiguration(UriToString(item.scopeUri), item.section) >>
LoopBody(item, editor) ==
  IF editor # None /\ editor[1].uri = UriToString(item.scopeUri)
  THEN IF item.section = "xml.format.insertSpaces" THEN << editor[1].insertSpaces >>
       ELSE IF item.section = "xml.format.tabSize" THEN << editor[1].tabSize >>
       ELSE <<>>
  ELSE << GetConfiguration(UriToString(item.scopeUri), item.section) >>

\* lines 89-91: the request arrives, result = [], activeEditor is read
ConfigurationRequest(c, items) ==
  /\ Quiescent
  /\ Registered("workspace/configuration", c)
  /\ cfgPc' = "loop"
  /\ cfgClient' = c
  /\ cfgItems' = items
  /\ cfgIdx' = 1
  /\ cfgResult' = <<>>
  /\ cfgEditor' = activeTextEditor
  /\ UNCHANGED <<startVars, hostVars, envVars, eventVars, notifVars>>

\* lines 92-102: one iteration
ConfigurationLoop ==
  /\ cfgPc = "loop"
  /\ cfgIdx <= Len(cfgItems)
  /\ cfgResult' = cfgResult \o LoopBody(cfgItems[cfgIdx], cfgEditor)
  /\ cfgIdx' = cfgIdx + 1
  /\ UNCHANGED <<cfgPc, cfgClient, cfgItems, cfgEditor>>
  /\ UNCHANGED <<startVars, hostVars, envVars, eventVars, notifVars>>

\* line 103: return result
ConfigurationReturn ==
  /\ cfgPc = "loop"
  /\ cfgIdx > Len(cfgItems)
  /\ cfgPc' = "returned"
  /\ UNCHANGED <<cfgClient, cfgItems, cfgIdx, cfgResult, cfgEditor>>
  /\ UNCHANGED <<startVars, hostVars, envVars, eventVars, notifVars>>

\* the library sends the response; the locals of the handler are gone
ConfigurationRespond ==
  /\ cfgPc = "returned"
  /\ cfgPc' = "idle"
  /\ cfgClient' = 0
  /\ cfgItems' = <<>>
  /\ cfgIdx' = 1
  /\ cfgResult' = <<>>
  /\ cfgEditor' = None
  /\ UNCHANGED <<startVars, hostVars, envVars, eventVars, notifVars>>

\* --------------------------------- xml/actionableNotification (170-198)
Undefined == "<undefined>"
Titles == {"Fix", "Ignore"}

\* Command: title, command, arguments?
Actions ==
  { [title |-> "Fix", command |-> "x.fix", arguments |-> Some(<<1>>)],
    [title |-> "Ignore", command |-> "x.ignore", arguments |-> None],
    [title |-> "Fix", command |-> "x.other", arguments |-> Some(<<>>)] }

\* ActionableMessage (25-30): severity, message, commands?
ActionableMessages ==
  [ severity : {Error, Warning, Info, Log},
    message : {"m"},
    commands : {None} \cup {Some(cs) : cs \in SeqsUpTo(Actions, MaxCommands)} ]

\* lines 172-183: the switch on the severity
SeverityToShow(severity) ==
  CASE severity = Info -> "showInformationMessage"
    [] severity = Warning -> "showWarningMessage"
    [] severity = Error -> "showErrorMessage"
    [] OTHER -> "null"

\* lines 172-188: the prompts the callback shows and whether it throws;
\* commands.map on an absent commands list is a TypeError
NotificationCallback(n) ==
  LET show == SeverityToShow(n.severity) IN
  IF show = "null" THEN [prompts |-> <<>>, thrown |-> FALSE]
  ELSE IF n.commands = None THEN [prompts |-> <<>>, thrown |-> TRUE]
  ELSE [ prompts |-> << [ show |-> show, message |-> n.message,
                          titles |-> [i \in DOMAIN n.commands[1] |-> n.commands[1][i].title],
                          notification |-> n ] >>,
         thrown |-> FALSE ]

\* the server sends the notification to client c, whose listener runs
ActionableNotification(c, n) ==
  /\ Quiescent
  /\ Registered("xml/actionableNotification", c)
  /\ Len(pending) < MaxPending
  /\ LET out == NotificationCallback(n) IN
       /\ pending' = pending \o out.prompts
       /\ handled' = [ kind |-> "notification", notification |-> Some(n),
                       selection |-> Undefined, prompts |-> out.prompts,
                       executed |-> <<>>, thrown |-> out.thrown ]
  /\ UNCHANGED <<startVars, hostVars, envVars, eventVars, cfgVars>>

\* line 191-192: commands.executeCommand(action.command, ...args)
ExecuteCommand(action) ==
  [ command |-> action.command,
    args |-> IF action.arguments # None THEN action.arguments[1] ELSE <<>> ]

\* lines 189-195: the commands the .then callback executes
RECURSIVE ThenCallbackMutant(_, _)
ThenCallbackMutant(commandList, selection) ==
  IF commandList = <<>> THEN <<>>
  ELSE (IF Head(commandList).title = selection
        THEN << ExecuteCommand(Head(commandList)) >> ELSE <<>>)
       \o ThenCallbackMutant(Tail(commandList), selection)
RECURSIVE ThenCallback(_, _)
ThenCallback(commandList, selection) ==
  IF commandList = <<>> THEN <<>>
  ELSE IF Head(commandList).title = selection
       THEN << ExecuteCommand(Head(commandList)) >>
       ELSE ThenCallback(Tail(commandList), selection)

\* the host resolves prompt i with the title the user picked, or undefined
PromptResolves(i, selection) ==
  /\ Quiescent
  /\ i \in DOMAIN pending
  /\ pending' = [k \in 1..(Len(pending) - 1) |-> IF k < i THEN pending[k] ELSE pending[k + 1]]
  /\ handled' = [ kind |-> "resolution", notification |-> Some(pending[i].notification),
                  selection |-> selection, prompts |-> <<>>,
                  executed |-> ThenCallback(pending[i].notification.commands[1], selection),
                  thrown |-> FALSE ]
  /\ UNCHANGED <<startVars, hostVars, envVars, eventVars, cfgVars>>

\* the callback has returned
CallbackReturns ==
  /\ handled.kind # "none"
  /\ handled' = [ kind |-> "none", notification |-> None, selection |-> Undefined,
                  prompts |-> <<>>, executed |-> <<>>, thrown |-> FALSE ]
  /\ UNCHANGED pending
  /\ UNCHANGED <<startVars, hostVars, envVars, eventVars, cfgVars>>

\* the state when the host activates the extension, on a host of the given
\* capabilities and with one of the given editors active
InitOn(trustEvent, extensionsEvent, editors) ==
  /\ languageClient = 0
  /\ nClients = 0
  /\ pc = [c \in Clients |-> "notCalled"]
  /\ clientState = [c \in Clients |-> Stopped]
  /\ regLog = <<>>
  /\ returned = [c \in Clients |-> 0]
  /\ XMLLSReady = None
  /\ hasTrustEvent \in trustEvent
  /\ hasExtensionsEvent \in extensionsEvent
  /\ activeTextEditor \in editors
  /\ fileAssociations = <<>>
  /\ downloadExternalResources = TRUE
  /\ configChangePending = FALSE
  /\ delivered = 0
  /\ lastEvent = "none"
  /\ effects = <<>>
  /\ cfgPc = "idle"
  /\ cfgClient = 0
  /\ cfgItems = <<>>
  /\ cfgIdx = 1
  /\ cfgResult = <<>>
  /\ cfgEditor = None
  /\ pending = <<>>
  /\ handled = [ kind |-> "none", notification |-> None, selection |-> Undefined,
                 prompts |-> <<>>, executed |-> <<>>, thrown |-> FALSE ]

\* any host (VS Code, Theia), no editor open yet
Init == InitOn(BOOLEAN, BOOLEAN, {None})

\* VS Code, any editor active
InitConfiguration == InitOn({TRUE}, {TRUE}, {None} \cup {Some(ed) : ed \in Editors})

\* VS Code, no editor open
InitActionable == InitOn({TRUE}, {TRUE}, {None})

Startup ==
  \/ Activate
  \/ \E c \in Clients, s \in {Stopped, Running, Starting} : DidChangeState(c, s)
  \/ \E c \in Clients : StartResolves(c)
  \/ \E c \in Clients : StartRejects(c)

NextReentrant ==
  \/ Startup
  \/ StartAgain

SpecReentrant == Init /\ [][NextReentrant]_vars

Next ==
  \/ Startup
  \/ \E e \in {None} \cup {Some(ed) : ed \in Editors} : ChangeActiveTextEditor(e)
  \/ \E a \in FileAssociationSettings, d \in BOOLEAN : UserChangesSettings(a, d)
  \/ GrantWorkspaceTrust
  \/ DidChangeConfiguration

Spec == Init /\ [][Next]_vars

NextConfiguration ==
  \/ Startup
  \/ \E c \in Clients, items \in SeqsUpTo(ConfigurationItems, MaxItems) : ConfigurationRequest(c, items)
  \/ ConfigurationLoop
  \/ ConfigurationReturn
  \/ ConfigurationRespond

SpecConfiguration == InitConfiguration /\ [][NextConfiguration]_vars

NextActionable ==
  \/ Startup
  \/ \E c \in Clients, n \in ActionableMessages : ActionableNotification(c, n)
  \/ \E i \in 1..MaxPending, s \in Titles \cup {Undefined} : PromptResolves(i, s)
  \/ CallbackReturns

SpecActionable == InitActionable /\ [][NextActionable]_vars

\* ================================================================ claims

SupportedSeverities == {Info, Warning, Error}

\* the value the claims say item resolves to
ResolvedValue(item, editor) ==
  LET matches == editor # None /\ editor[1].uri = UriToString(item.scopeUri) IN
  IF matches /\ item.section = "xml.format.insertSpaces" THEN editor[1].insertSpaces
  ELSE IF matches /\ item.section = "xml.format.tabSize" THEN editor[1].tabSize
  ELSE GetConfiguration(UriToString(item.scopeUri), item.section)

\* C1: the configuration-pull handler returns exactly one entry per requested
\* item, entry k being the value resolved for item k, whatever the sections
\* and whatever the active editor.
C1_OneEntryPerItem ==
  cfgPc = "returned" =>
    /\ Len(cfgResult) = Len(cfgItems)
    /\ \A k \in DOMAIN cfgItems : cfgResult[k] = ResolvedValue(cfgItems[k], activeTextEditor)

\* C2: the XMLLSReady context key, once the state listener has set it, is
\* true if and only if the state the client reported last is Running.
C2_ReadyIffRunning ==
  XMLLSReady # None => (XMLLSReady[1] <=> clientState[1] = Running)

\* C2 witness: the client ran and has stopped again, and the key is false
C2_Witness ==
  /\ pc[1] = "returned"
  /\ clientState[1] = Stopped
  /\ XMLLSReady = Some(FALSE)

\* C3: whatever the sequence of startLanguageClient calls, at most one
\* started client that was not torn down exists.
C3_AtMostOneSession ==
  Cardinality({c \in Clients : pc[c] = "returned" /\ clientState[c] = Running}) <= 1

\* C4: a notification of severity Info, Warning or Error shows exactly one
\* prompt, of the style of its severity; one of any other severity shows no
\* prompt and executes no command.
C4_PromptPerSeverity ==
  handled.kind = "notification" =>
    LET n == handled.notification[1] IN
    IF n.severity \in SupportedSeverities
    THEN /\ Len(handled.prompts) = 1
         /\ handled.prompts[1].show =
              (CASE n.severity = Info -> "showInformationMessage"
                 [] n.severity = Warning -> "showWarningMessage"
                 [] n.severity = Error -> "showErrorMessage")
    ELSE handled.prompts = <<>> /\ handled.executed = <<>>

\* C5: when the prompt of a shown notification resolves, the command of the
\* first action whose title equals the selection is executed exactly once,
\* with the action's arguments or with none when it has none, and nothing
\* else is executed; with no selection or no matching title nothing is
\* executed.  The message is not shown again.
C5_FirstMatchExecuted ==
  handled.kind = "resolution" =>
    LET cs == handled.notification[1].commands[1]
        hits == {i \in DOMAIN cs : cs[i].title = handled.selection}
    IN /\ handled.prompts = <<>>
       /\ ~ handled.thrown
       /\ IF hits = {} \/ handled.selection = Undefined
          THEN handled.executed = <<>>
          ELSE LET first == CHOOSE i \in hits : \A j \in hits : i <= j
               IN handled.executed =
                    << [ command |-> cs[first].command,
                         args |-> IF cs[first].arguments = None THEN <<>>
                                  ELSE cs[first].arguments[1] ] >>

\* C5 witness: two actions titled Fix, Fix selected, only the first one ran
C5_Witness ==
  /\ handled.kind = "resolution"
  /\ handled.selection = "Fix"
  /\ Len(handled.notification[1].commands[1]) = 2
  /\ \A i \in 1..2 : handled.notification[1].commands[1][i].title = "Fix"
  /\ handled.notification[1].commands[1][1].command = "x.fix"
  /\ handled.executed = << [command |-> "x.fix", args |-> <<1>>] >>

\* C6: an active-editor change delivered to the listener sends exactly one
\* DidChangeConfiguration notification with the settings computed at that
\* time and then runs onConfigurationChange once, if fileAssociations
\* references the current file; otherwise it sends and runs nothing.
C6_EditorChangePush ==
  [][ (delivered' = delivered + 1 /\ lastEvent' = "onDidChangeActiveTextEditor") =>
        IF containsVariableReferenceToCurrentFile(fileAssociations')
        THEN effects' =
               << Push(getXMLSettings(activeTextEditor', fileAssociations', downloadExternalResources')),
                  Callback >>
        ELSE effects' = <<>> ]_vars

\* C6 witness: the listener pushed the settings for the newly active file
C6_Witness ==
  /\ lastEvent = "onDidChangeActiveTextEditor"
  /\ activeTextEditor # None
  /\ Len(effects) = 2
  /\ effects[1].settings # None
  /\ effects[1].settings[1].currentFile = activeTextEditor[1].uri
  /\ effects[2] = Callback

\* C7: for an item whose scopeUri is the active editor's document,
\* xml.format.insertSpaces and xml.format.tabSize resolve to the editor's
\* options; with no active editor or another document every section
\* resolves to the configuration lookup scoped to the item's scopeUri.
C7_Resolution ==
  [][ (cfgPc = "loop" /\ cfgIdx' = cfgIdx + 1) =>
        LET item == cfgItems[cfgIdx]
            ed == activeTextEditor
            matches == ed # None /\ ed[1].uri = UriToString(item.scopeUri)
        IN /\ (matches /\ item.section = "xml.format.insertSpaces")
                => cfgResult' = Append(cfgResult, ed[1].insertSpaces)
           /\ (matches /\ item.section = "xml.format.tabSize")
                => cfgResult' = Append(cfgResult, ed[1].tabSize)
           /\ (~ matches)
                => cfgResult' = Append(cfgResult,
                                       GetConfiguration(UriToString(item.scopeUri), item.section)) ]_vars

\* C7 witness: insertSpaces of the active document, written with an
\* unencoded colon, then tabSize of another document
C7_Witness ==
  /\ cfgPc = "returned"
  /\ activeTextEditor # None
  /\ activeTextEditor[1].uri = "file:///c%3A/a.xml"
  /\ cfgItems = << [scopeUri |-> "file:///c:/a.xml", section |-> "xml.format.insertSpaces"],
                   [scopeUri |-> "file:///b.xml", section |-> "xml.format.tabSize"] >>
  /\ cfgResult = << activeTextEditor[1].insertSpaces, "8" >>

\* C8: the actionable-notification handler never throws, whatever the
\* severity and whether the commands list is present, empty or absent, and a
\* message of a supported severity without commands gets a prompt without
\* buttons.
C8_NeverThrows ==
  handled.kind # "none" =>
    /\ ~ handled.thrown
    /\ LET n == handled.notification[1] IN
       (/\ handled.kind = "notification"
        /\ n.severity \in SupportedSeverities
        /\ n.commands \in {None, Some(<<>>)})
         => (Len(handled.prompts) = 1 /\ handled.prompts[1].titles = <<>>)

\* C9: where the host has the trust event, a trust grant sends one
\* DidChangeConfiguration notification with the settings computed at that
\* time, then sets xml.downloadExternalResources.enabled to true whatever it
\* was, and does not run onConfigurationChange; where the host has no such
\* event no trust listener is registered and start completes all the same.
C9_TrustGrant ==
  /\ [](pc[1] = "returned" => (RegisteredOnHost("onDidGrantWorkspaceTrust") <=> hasTrustEvent))
  /\ [](\A i \in DOMAIN regLog :
          regLog[i][1] = "onDidGrantWorkspaceTrust" => hasTrustEvent)
  /\ [][ (delivered' = delivered + 1 /\ lastEvent' = "onDidGrantWorkspaceTrust") =>
           /\ effects' =
                << Push(getXMLSettings(activeTextEditor, fileAssociations, downloadExternalResources)),
                   UpdateDownload >>
           /\ downloadExternalResources' = TRUE ]_vars

\* C9 witness: the user had switched the setting off; the grant pushed the
\* settings as they were and switched it on
C9_Witness ==
  /\ lastEvent = "onDidGrantWorkspaceTrust"
  /\ Len(effects) = 2
  /\ effects[1].settings # None
  /\ effects[1].settings[1].downloadExternalResources = FALSE
  /\ downloadExternalResources = TRUE

PreStartNames == {"onDidChangeState", "onTelemetry"}
PostStartNames ==
  { "xml/actionableNotification", "xml/executeClientCommand", "workspace/configuration",
    "activateTagClosing", "onDidChangeActiveTextEditor", "onDidGrantWorkspaceTrust" }
PostStartAlways == PostStartNames \ {"onDidGrantWorkspaceTrust"}

\* C10: the state and telemetry listeners are registered before start() is
\* called; the actionable-notification, executeClientCommand and
\* configuration handlers, the tag-close provider and the editor and trust
\* listeners only after start() has resolved.  When start() fails the call
\* rejects, none of these is ever registered and nothing is retried.
C10_Order ==
  /\ \A i \in DOMAIN regLog :
       /\ regLog[i][1] = "start" =>
            \A name \in PreStartNames : \E k \in 1..(i - 1) : regLog[k] = <<name, regLog[i][2]>>
       /\ regLog[i][1] \in PreStartNames =>
            ~ \E k \in 1..(i - 1) : regLog[k] = <<"start", regLog[i][2]>>
       /\ regLog[i][1] \in PostStartNames =>
            \E k \in 1..(i - 1) : regLog[k] = <<"start.resolved", regLog[i][2]>>
  /\ \A c \in Clients :
       /\ pc[c] = "returned" => \A name \in PostStartAlways : Registered(name, c)
       /\ pc[c] \in {"awaitStart", "rejected"} => \A name \in PostStartNames : ~ Registered(name, c)
       /\ pc[c] # "notCalled" => Registered("start", c)

C10_RegistrationOrder ==
  /\ []C10_Order
  /\ [][ \A c \in Clients :
           pc[c] = "rejected" =>
             (pc'[c] = "rejected" /\ regLog' = regLog /\ nClients' = nClients) ]_vars

\* C10 witness: start() resolved and the handlers follow it in the log
C10_Witness ==
  /\ pc[1] = "returned"
  /\ Registered("xml/actionableNotification", 1)
  /\ Registered("onDidGrantWorkspaceTrust", 1)
  /\ regLog[3] = <<"start", 1>>
  /\ regLog[4] = <<"start.resolved", 1>>

====
